---- MODULE Spec2Model ----
(***************************************************************************)
(* demo-db's inserter (inserter.go, config.go): main parses the command    *)
(* line, loads the configuration, builds the connection pool and runs one  *)
(* action.  For --insert, runInsert launches one goroutine per enabled     *)
(* table through startInsertWorker, every goroutine loops over its task    *)
(* until the task fails or the signal context is done, and runInsert waits *)
(* on a sync.WaitGroup for all of them.                                    *)
(***************************************************************************)
EXTENDS Integers, FiniteSets, Sequences, TLC

\* largest every_n_seconds value a configuration file carries in the model
MaxEvery == 1

\* most insert categories one configuration file enables in the model
MaxEnabled == 2

\* the same, for the runs that are checked for liveness
MaxEnabledFair == 1

\* how far the task calls, successes and rows of a table are counted in the
\* runs that count them
MaxCount == 1

\* longest string asked of GenerateRandomString in the model
MaxLength == 2

\* the most bytes standard input holds in the drop-tables runs
MaxAnswer == 4

(***************************************************************************)
(* Tables and configuration                                                *)
(***************************************************************************)

\* the keys of the map literal runInsert ranges over
tables == {"artist", "genre", "media_type", "playlist"}

\* every table name runInsert can hand to startInsertWorker
TableNames == {"timestamp", "bigtable", "employee"} \cup tables

\* the three insert categories of InserterConfig.Inserter read by runInsert
Categories == {"timestamp_inserts", "bigtable_inserts", "main_tables_inserts"}

\* a category object of the configuration file: missing, or its two fields
Absent == [present |-> FALSE, enabled |-> FALSE, every_n_seconds |-> 0]

CategoryJson ==
    {Absent} \cup
    [present : {TRUE}, enabled : BOOLEAN, every_n_seconds : 0..MaxEvery]

\* the categories a file enables
EnabledIn(f) == {c \in Categories : f[c].enabled}

\* the configuration files of the model: one cadence for all the categories
\* a file spells out, at most MaxEnabled of them enabled
ConfigFiles ==
    {f \in [Categories -> CategoryJson] :
        /\ Cardinality(EnabledIn(f)) <= MaxEnabled
        /\ \A c, d \in Categories :
                (f[c].present /\ f[d].present) =>
                    f[c].every_n_seconds = f[d].every_n_seconds}

\* the files the liveness runs start from: at most MaxEnabledFair categories
\* enabled, main_tables_inserts with its five workers only on its own,
\* disabled categories left out, and every_n_seconds given for
\* timestamp_inserts only, the one category whose cadence runInsert reads
FairConfigFiles ==
    {f \in [Categories -> CategoryJson] :
        /\ Cardinality(EnabledIn(f)) <= MaxEnabledFair
        /\ f["main_tables_inserts"].enabled =>
                EnabledIn(f) = {"main_tables_inserts"}
        /\ \A c \in Categories :
                /\ f[c].present => f[c].enabled
                /\ c # "timestamp_inserts" => f[c].every_n_seconds = 0}

\* json.Decode into the zero-valued struct: a missing object leaves
\* Enabled = false and EveryNSeconds = 0
loadConfig(f) ==
    [c \in Categories |->
        IF f[c].present
        THEN [Enabled |-> f[c].enabled, EveryNSeconds |-> f[c].every_n_seconds]
        ELSE [Enabled |-> FALSE, EveryNSeconds |-> 0]]

(***************************************************************************)
(* The command line                                                        *)
(***************************************************************************)

\* the five action flags, in the order parseAndValidateFlags counts them
Actions == <<"insert", "drop-tables", "recreate", "validate", "create-tables">>

ActionNames == {Actions[k] : k \in 1..Len(Actions)}

\* what flag.Parse can leave in the six flag variables
CommandLines == [config : {"", "config.json"}, action : [ActionNames -> BOOLEAN]]

\* the command line `--config config.json --insert`
InsertCommandLine ==
    [config |-> "config.json", action |-> [a \in ActionNames |-> a = "insert"]]

\* a nil error
Nil == "nil"

\* the nil *CommandFlags
NoFlags == <<>>

\* the count parseAndValidateFlags took before create-tables was an action
actionCountFirstFour(a) ==
    LET upTo[j \in 0..Len(Actions)] ==
            IF j = 0 THEN 0
            ELSE upTo[j - 1]
                    + (IF a.action[Actions[j]] /\ Actions[j] # "create-tables"
                       THEN 1 ELSE 0)
    IN  upTo[Len(Actions)]

\* actionCount after the five `if *flag { actionCount++ }` blocks
actionCount(a) ==
    LET upTo[j \in 0..Len(Actions)] ==
            IF j = 0 THEN 0
            ELSE upTo[j - 1] + (IF a.action[Actions[j]] THEN 1 ELSE 0)
    IN  upTo[Len(Actions)]

\* parseAndValidateFlags: the two values it returns
parseAndValidateFlags(a) ==
    IF a.config = ""
    THEN [flags |-> NoFlags, err |-> "--config is required"]
    ELSE IF actionCount(a) = 0
    THEN [flags |-> NoFlags, err |-> "one action is required"]
    ELSE IF actionCount(a) > 1
    THEN [flags |-> NoFlags, err |-> "only one action can be specified at a time"]
    ELSE [flags |-> [ConfigPath |-> a.config,
                     Insert |-> a.action["insert"],
                     DropTables |-> a.action["drop-tables"],
                     Recreate |-> a.action["recreate"],
                     Validate |-> a.action["validate"],
                     CreateTables |-> a.action["create-tables"]],
          err |-> Nil]

(***************************************************************************)
(* GenerateRandomString                                                    *)
(***************************************************************************)

\* const alphabet
alphabet ==
    <<"a", "b", "c", "d", "e", "f", "g", "h", "i", "j", "k", "l", "m",
      "n", "o", "p", "q", "r", "s", "t", "u", "v", "w", "x", "y", "z",
      "A", "B", "C", "D", "E", "F", "G", "H", "I", "J", "K", "L", "M",
      "N", "O", "P", "Q", "R", "S", "T", "U", "V", "W", "X", "Y", "Z",
      "0", "1", "2", "3", "4", "5", "6", "7", "8", "9">>

\* the zero byte make([]byte, length) fills the slice with
ZeroByte == "\\x00"

\* s[n] of Go, n counted from 0: a byte of s, or the runtime's panic
IndexByte(s, n) ==
    IF n \in 0..(Len(s) - 1) THEN s[n + 1] ELSE "panic: index out of range"

\* a draw that can also return its argument
Uint64NInclusive(n) == 0..n

\* rand.Uint64N(n): the values the call can return
Uint64N(n) == 0..(n - 1)

(***************************************************************************)
(* The drop-tables dialogue                                                *)
(***************************************************************************)

\* the bytes an answer on standard input is made of
AnswerBytes == {"y", "Y", "e", "s", "n", " ", "\n"}

\* what standard input can hold
Stdins == UNION {[1..n -> AnswerBytes] : n \in 0..MaxAnswer}

\* reader.ReadString(delim): the bytes up to and including the first delim,
\* or all of them when the input ends first; the error is dropped
ReadString(s, delim) ==
    LET at == {k \in 1..Len(s) : s[k] = delim}
    IN  IF at = {} THEN s
        ELSE SubSeq(s, 1, CHOOSE k \in at : \A j \in at : k <= j)

\* unicode.ToLower of one byte
toLower(c) ==
    CASE c = "Y" -> "y"
      [] c = "E" -> "e"
      [] c = "S" -> "s"
      [] c = "N" -> "n"
      [] OTHER   -> c

\* strings.ToLower of a byte string
ToLowerBytes(s) == [k \in 1..Len(s) |-> toLower(s[k])]

\* unicode.IsSpace
IsSpace(c) == c \in {" ", "\n", "\t", "\r"}

\* strings.TrimSpace
TrimSpace(s) ==
    LET keep == {k \in 1..Len(s) : ~IsSpace(s[k])}
    IN  IF keep = {} THEN <<>>
        ELSE SubSeq(s, CHOOSE k \in keep : \A j \in keep : k <= j,
                       CHOOSE k \in keep : \A j \in keep : k >= j)

\* an answer that counts when it only begins with y
ConfirmedByFirstByte(answer) == answer # <<>> /\ answer[1] = "y"

\* input == "yes" || input == "y"
Confirmed(answer) == answer = <<"y", "e", "s">> \/ answer = <<"y">>

\* the tables slice of dropTables
DropTableNames ==
    <<"timestamp", "album", "artist", "customer", "employee", "playlist",
      "playlist_track", "track", "genre", "media_type", "invoice",
      "invoice_line", "bigtable">>

\* the statement dropTables queues for a table
DropStatement(t) == <<"DROP TABLE IF EXISTS", t, "CASCADE">>

\* the command line `--config config.json --drop-tables`
DropCommandLine ==
    [config |-> "config.json", action |-> [a \in ActionNames |-> a = "drop-tables"]]

VARIABLES
    args,       \* the command line main was started with
    cfg,        \* the InserterConfig decoded from the file --config names
    limit,      \* how far this run counts calls and rows
    flags,      \* the *CommandFlags parseAndValidateFlags returned to main
    mainErr,    \* the error main printed before it returned, if any
    ran,        \* the cases of main's switch that have run
    ctxDone,    \* ctx.Done() of signal.NotifyContext is closed
    pc,         \* where main and runInsert are
    mapLeft,    \* keys the range over the tables map has not visited yet
    wg,         \* counter of the sync.WaitGroup
    started,    \* startInsertWorker calls per table name
    interval,   \* the interval argument each worker was started with
    worker,     \* where each worker goroutine is
    waited,     \* seconds elapsed on the time.After timer of a waiting worker
    startLines, \* "Starting insert worker for table" lines each worker printed
    errLines,   \* "Error inserting into table" lines each worker printed
    inflight,   \* statements of each worker the database has not answered
    calls,      \* task() calls of each worker, counted up to limit.calls
    oks,        \* task() calls that returned nil, counted up to limit.rows
    rows,       \* rows inserted into each table, counted up to limit.rows
    now,        \* seconds since runInsert was called, in the timed runs
    length,     \* GenerateRandomString: the length argument
    i,          \* GenerateRandomString: bytes of result written so far
    result,     \* GenerateRandomString: the byte slice
    stdin,      \* the bytes standard input holds
    input,      \* drop-tables: the answer main read, lower-cased and trimmed
    batch,      \* drop-tables: the statements dropTables sent in its batch
    printed,    \* drop-tables: the tables of the "Dropped table" lines
    dropErr     \* drop-tables: the error dropTables returned, if any

vars ==
    <<args, cfg, limit, flags, mainErr, ran, ctxDone, pc, mapLeft, wg, started,
      interval, worker, waited, startLines, errLines, inflight, calls, oks,
      rows, now,
      length, i, result, stdin, input, batch, printed, dropErr>>

\* what no step of main, runInsert or a worker writes: the inputs of the
\* run, the clock, and the locals of a GenerateRandomString call
given == <<args, cfg, limit, now, length, i, result>>

\* the dialogue of the drop-tables action and what dropTables did
dialogue == <<stdin, input, batch, printed, dropErr>>

aside == <<given, dialogue>>

\* the state of the worker goroutines and of the database
workers == <<worker, waited, startLines, errLines, inflight, calls, oks, rows>>

\* no count is kept
NoCount == [calls |-> 0, rows |-> 0]

\* only whether a worker has called its task at all is kept
CountOnce == [calls |-> 1, rows |-> 0]

\* main is about to call parseAndValidateFlags: nothing has run and no
\* worker exists; counts are kept as far as upTo says
mainStart(upTo) ==
    /\ limit = upTo
    /\ flags = NoFlags
    /\ mainErr = Nil
    /\ ran = {}
    /\ ctxDone = FALSE
    /\ mapLeft = {}
    /\ wg = 0
    /\ started = [t \in TableNames |-> 0]
    /\ interval = [t \in TableNames |-> 0]
    /\ worker = [t \in TableNames |-> "none"]
    /\ waited = [t \in TableNames |-> 0]
    /\ startLines = [t \in TableNames |-> 0]
    /\ errLines = [t \in TableNames |-> 0]
    /\ inflight = [t \in TableNames |-> 0]
    /\ calls = [t \in TableNames |-> 0]
    /\ oks = [t \in TableNames |-> 0]
    /\ rows = [t \in TableNames |-> 0]
    /\ now = 0
    /\ input = <<>>
    /\ batch = <<>>
    /\ printed = <<>>
    /\ dropErr = <<>>

\* a run of main: the file on disk is one of files, standard input is
\* empty, and no call of GenerateRandomString is followed
InitWith(files, upTo) ==
    /\ args \in CommandLines
    /\ cfg \in {loadConfig(f) : f \in files}
    /\ pc = "parse"
    /\ mainStart(upTo)
    /\ length = 0
    /\ i = 0
    /\ result = <<>>
    /\ stdin = <<>>

Init == InitWith(ConfigFiles, NoCount)

(***************************************************************************)
(* main, up to its switch                                                  *)
(***************************************************************************)

\* flags, err := parseAndValidateFlags(); on an error main prints it and
\* returns
ParseFlags ==
    /\ pc = "parse"
    /\ flags' = parseAndValidateFlags(args).flags
    /\ mainErr' = parseAndValidateFlags(args).err
    /\ pc' = IF mainErr' # Nil THEN "exit" ELSE "load"
    /\ UNCHANGED <<ran, ctxDone, mapLeft, wg, started, interval>>
    /\ UNCHANGED <<workers, aside>>

\* cfg, err := loadConfig(flags.ConfigPath): the file opens and decodes, or
\* it does not and main prints the error and returns
LoadConfig ==
    /\ pc = "load"
    /\ \E ok \in BOOLEAN :
        /\ mainErr' = IF ok THEN Nil ELSE "cannot load config"
        /\ pc' = IF ok THEN "connect" ELSE "exit"
    /\ UNCHANGED <<flags, ran, ctxDone, mapLeft, wg, started, interval>>
    /\ UNCHANGED <<workers, aside>>

\* a main that prints the connection error and goes on to its switch
ConnectPoolIgnoringError ==
    /\ pc = "connect"
    /\ \E ok \in BOOLEAN :
        /\ mainErr' = IF ok THEN Nil ELSE "database connection failed"
        /\ pc' = "switch"
    /\ UNCHANGED <<flags, ran, ctxDone, mapLeft, wg, started, interval>>
    /\ UNCHANGED <<workers, aside>>

\* dbConn, err := connectPool(cfg): pgxpool.NewWithConfig returns a pool or
\* an error; on the error main prints it and returns.  With the pool main
\* goes on to signal.NotifyContext and its switch
ConnectPool ==
    /\ pc = "connect"
    /\ \E ok \in BOOLEAN :
        /\ mainErr' = IF ok THEN Nil ELSE "database connection failed"
        /\ pc' = IF ok THEN "switch" ELSE "exit"
    /\ UNCHANGED <<flags, ran, ctxDone, mapLeft, wg, started, interval>>
    /\ UNCHANGED <<workers, aside>>

\* one case of main's switch that is not --insert runs and main returns
runAction(name) ==
    /\ ran' = ran \cup {name}
    /\ pc' = "exit"
    /\ UNCHANGED <<flags, mainErr, ctxDone, mapLeft, wg, started, interval>>
    /\ UNCHANGED <<workers, aside>>

\* case flags.Validate: the first case of the switch
SwitchValidate ==
    /\ pc = "switch"
    /\ flags.Validate
    /\ runAction("validate")

\* case flags.Insert: runInsert(ctx, cfg, dbConn) is called
SwitchInsert ==
    /\ pc = "switch"
    /\ ~flags.Validate
    /\ flags.Insert
    /\ ran' = ran \cup {"insert"}
    /\ pc' = "timestamp"
    /\ UNCHANGED <<flags, mainErr, ctxDone, mapLeft, wg, started, interval>>
    /\ UNCHANGED <<workers, aside>>

\* case flags.DropTables: the question, the answer read from standard
\* input, and on "yes" or "y" the call of dropTables as far as SendBatch
SwitchDropTables ==
    /\ pc = "switch"
    /\ ~flags.Validate /\ ~flags.Insert
    /\ flags.DropTables
    /\ ran' = ran \cup {"drop-tables"}
    /\ input' = TrimSpace(ToLowerBytes(ReadString(stdin, "\n")))
    /\ IF Confirmed(input')
       THEN /\ batch' = [k \in 1..Len(DropTableNames) |->
                            DropStatement(DropTableNames[k])]
            /\ pc' = "drop"
       ELSE /\ batch' = batch
            /\ pc' = "exit"
    /\ UNCHANGED <<flags, mainErr, ctxDone, mapLeft, wg, started, interval>>
    /\ UNCHANGED <<workers, given, stdin, printed, dropErr>>

\* case flags.Recreate
SwitchRecreate ==
    /\ pc = "switch"
    /\ ~flags.Validate /\ ~flags.Insert /\ ~flags.DropTables
    /\ flags.Recreate
    /\ runAction("recreate")

\* case flags.CreateTables
SwitchCreateTables ==
    /\ pc = "switch"
    /\ ~flags.Validate /\ ~flags.Insert /\ ~flags.DropTables /\ ~flags.Recreate
    /\ flags.CreateTables
    /\ runAction("create-tables")

Main ==
    \/ ParseFlags
    \/ LoadConfig
    \/ ConnectPool
    \/ SwitchValidate
    \/ SwitchInsert
    \/ SwitchDropTables
    \/ SwitchRecreate
    \/ SwitchCreateTables

\* runInsert has been called and has not returned
InRunInsert == pc \in {"timestamp", "bigtable", "main", "range", "wait"}

(***************************************************************************)
(* Cancellation: os.Interrupt closes ctx.Done() once, at any time between  *)
(* signal.NotifyContext and the return of main.                            *)
(***************************************************************************)
CtxLive == pc \in {"switch", "timestamp", "bigtable", "main", "range", "wait"}

Interrupt ==
    /\ CtxLive
    /\ ~ctxDone
    /\ ctxDone' = TRUE
    /\ UNCHANGED <<flags, mainErr, ran, pc, mapLeft, wg, started, interval>>
    /\ UNCHANGED <<workers, aside>>

(***************************************************************************)
(* startInsertWorker: wg.Add(1) and the go statement                       *)
(***************************************************************************)
startInsertWorker(tableName, ival) ==
    /\ wg' = wg + 1
    /\ started' = [started EXCEPT ![tableName] = @ + 1]
    /\ interval' = [interval EXCEPT ![tableName] = ival]
    /\ worker' = [worker EXCEPT ![tableName] = "start"]

skipWorker == UNCHANGED <<wg, started, interval, worker>>

\* what a step of runInsert leaves alone besides what it says
runInsertFrame ==
    /\ UNCHANGED <<flags, mainErr, ran, ctxDone>>
    /\ UNCHANGED <<waited, startLines, errLines, inflight, calls, oks, rows, aside>>

(***************************************************************************)
(* runInsert                                                               *)
(***************************************************************************)
\* a timestamp launch that does not look at the Enabled flag
RunTimestampUngated ==
    /\ pc = "timestamp"
    /\ startInsertWorker("timestamp", cfg["timestamp_inserts"].EveryNSeconds)
    /\ pc' = "bigtable"
    /\ mapLeft' = mapLeft
    /\ runInsertFrame

RunTimestamp ==
    /\ pc = "timestamp"
    /\ IF cfg["timestamp_inserts"].Enabled
       THEN startInsertWorker("timestamp", cfg["timestamp_inserts"].EveryNSeconds)
       ELSE skipWorker
    /\ pc' = "bigtable"
    /\ mapLeft' = mapLeft
    /\ runInsertFrame

\* a bigtable launch gated on the flag of the timestamp category
RunBigTableOnTimestampFlag ==
    /\ pc = "bigtable"
    /\ IF cfg["timestamp_inserts"].Enabled
       THEN startInsertWorker("bigtable", 0)
       ELSE skipWorker
    /\ pc' = "main"
    /\ mapLeft' = mapLeft
    /\ runInsertFrame

RunBigTable ==
    /\ pc = "bigtable"
    /\ IF cfg["bigtable_inserts"].Enabled
       THEN startInsertWorker("bigtable", 0)
       ELSE skipWorker
    /\ pc' = "main"
    /\ mapLeft' = mapLeft
    /\ runInsertFrame

RunMainTables ==
    /\ pc = "main"
    /\ IF cfg["main_tables_inserts"].Enabled
       THEN pc' = "range" /\ mapLeft' = tables
       ELSE pc' = "wait" /\ mapLeft' = mapLeft
    /\ skipWorker
    /\ runInsertFrame

\* one iteration of the range over the map, in the order the runtime picks;
\* the closure keeps the name of its own iteration
RangeTables ==
    /\ pc = "range"
    /\ mapLeft # {}
    /\ \E name \in mapLeft :
        /\ startInsertWorker(name, 0)
        /\ mapLeft' = mapLeft \ {name}
    /\ pc' = pc
    /\ runInsertFrame

\* an employee block that starts its worker under the name of a map table
RunEmployeeAsPlaylist ==
    /\ pc = "range"
    /\ mapLeft = {}
    /\ startInsertWorker("playlist", 0)
    /\ pc' = "wait"
    /\ mapLeft' = mapLeft
    /\ runInsertFrame

RunEmployee ==
    /\ pc = "range"
    /\ mapLeft = {}
    /\ startInsertWorker("employee", 0)
    /\ pc' = "wait"
    /\ mapLeft' = mapLeft
    /\ runInsertFrame

\* a supervisor whose Wait sees only a WaitGroup of the main-tables block,
\* not the one the timestamp and bigtable workers were added to
WaitReadyMainOnly ==
    \A w \in tables \cup {"employee"} : worker[w] \in {"none", "stopped", "failed"}

\* wg.Wait() returns when the counter is zero
WaitReady == wg = 0

WgWait ==
    /\ pc = "wait"
    /\ WaitReady
    /\ pc' = "returned"
    /\ UNCHANGED <<mapLeft, wg, started, interval, worker>>
    /\ runInsertFrame

(***************************************************************************)
(* The worker goroutine                                                    *)
(***************************************************************************)

\* tasks that hand pool.Exec a context the interrupt does not reach
TaskCtxBackground == FALSE

\* the context every task hands to pool.Exec is the signal context itself:
\* done on the interrupt, and with no deadline of its own
TaskCtxDone == ctxDone

\* the table the INSERT of a worker's task names: the worker's own
TaskTable(w) == w

\* one more, as far as the run counts
CountCall(n) == IF n < limit.calls THEN n + 1 ELSE n

CountRow(n) == IF n < limit.rows THEN n + 1 ELSE n

\* the deferred wg.Done()
wgDone == wg' = wg - 1

\* a loop that goes into the timer select whatever the interval is
afterTaskAlwaysWait(w) == "wait"

\* where the loop goes when err == nil
afterTask(w) == IF interval[w] > 0 THEN "wait" ELSE "check"

\* an error return that skips wg.Done()
failWorkerNoDone(w) ==
    /\ worker' = [worker EXCEPT ![w] = "failed"]
    /\ errLines' = [errLines EXCEPT ![w] = @ + 1]
    /\ UNCHANGED <<flags, mainErr, ran, ctxDone, pc, mapLeft, wg, started, interval, aside>>

\* a worker that cancels the shared context when its task fails
failWorkerCancelling(w) ==
    /\ worker' = [worker EXCEPT ![w] = "failed"]
    /\ errLines' = [errLines EXCEPT ![w] = @ + 1]
    /\ wgDone
    /\ ctxDone' = TRUE
    /\ UNCHANGED <<flags, mainErr, ran, pc, mapLeft, started, interval, aside>>

\* a loop that prints the error and carries on, as the timestamp loop of the
\* inline runInsert does
failWorkerRetry(w) ==
    /\ worker' = [worker EXCEPT ![w] = afterTask(w)]
    /\ errLines' = [errLines EXCEPT ![w] = @ + 1]
    /\ UNCHANGED <<flags, mainErr, ran, ctxDone, pc, mapLeft, wg, started, interval, aside>>

\* err != nil: the error line is printed and the goroutine returns
failWorker(w) ==
    /\ worker' = [worker EXCEPT ![w] = "failed"]
    /\ errLines' = [errLines EXCEPT ![w] = @ + 1]
    /\ wgDone
    /\ UNCHANGED <<flags, mainErr, ran, ctxDone, pc, mapLeft, started, interval, aside>>

\* a task() that is started and not waited for
callTaskAsync(w) ==
    /\ worker' = [worker EXCEPT ![w] = afterTask(w)]
    /\ inflight' = [inflight EXCEPT ![w] = @ + 1]
    /\ calls' = [calls EXCEPT ![w] = CountCall(@)]
    /\ UNCHANGED <<errLines, oks, rows>>
    /\ UNCHANGED <<flags, mainErr, ran, ctxDone, pc, mapLeft, wg, started, interval, aside>>

\* a task() whose pool.Exec does not look at its context before it sends
callTaskSendingAnyway(w) ==
    /\ calls' = [calls EXCEPT ![w] = CountCall(@)]
    /\ worker' = [worker EXCEPT ![w] = "exec"]
    /\ inflight' = [inflight EXCEPT ![w] = @ + 1]
    /\ UNCHANGED <<errLines, oks, rows>>
    /\ UNCHANGED <<flags, mainErr, ran, ctxDone, pc, mapLeft, wg, started, interval, aside>>

\* task(): pool.Exec is called and the statement goes to the database; with
\* a context that is already done the pool's Acquire returns ctx.Err() at
\* once and nothing is sent
callTask(w) ==
    /\ calls' = [calls EXCEPT ![w] = CountCall(@)]
    /\ UNCHANGED <<oks, rows>>
    /\ IF TaskCtxDone
       THEN /\ inflight' = inflight
            /\ failWorker(w)
       ELSE /\ worker' = [worker EXCEPT ![w] = "exec"]
            /\ inflight' = [inflight EXCEPT ![w] = @ + 1]
            /\ UNCHANGED <<flags, mainErr, ran, ctxDone, pc, mapLeft, wg, started, interval>>
            /\ UNCHANGED <<errLines, aside>>

\* a goroutine that looks at the context before its first task()
GoStartCheckingFirst(w) ==
    /\ worker[w] = "start"
    /\ startLines' = [startLines EXCEPT ![w] = @ + 1]
    /\ worker' = [worker EXCEPT ![w] = "check"]
    /\ UNCHANGED <<flags, mainErr, ran, ctxDone, pc, mapLeft, wg, started, interval, aside>>
    /\ UNCHANGED <<waited, errLines, inflight, calls, oks, rows>>

\* the goroutine is scheduled: prints its start line and calls task()
GoStart(w) ==
    /\ worker[w] = "start"
    /\ startLines' = [startLines EXCEPT ![w] = @ + 1]
    /\ callTask(w)
    /\ UNCHANGED waited

\* the database inserted the row and answered; err == nil
TaskOk(w) ==
    /\ worker[w] = "exec"
    /\ worker' = [worker EXCEPT ![w] = afterTask(w)]
    /\ waited' = [waited EXCEPT ![w] = 0]
    /\ inflight' = [inflight EXCEPT ![w] = @ - 1]
    /\ oks' = [oks EXCEPT ![w] = CountRow(@)]
    /\ rows' = [rows EXCEPT ![TaskTable(w)] = CountRow(@)]
    /\ UNCHANGED <<flags, mainErr, ran, ctxDone, pc, mapLeft, wg, started, interval>>
    /\ UNCHANGED <<startLines, errLines, calls, aside>>

\* the database (or the pool on its way to it) answered with an error and
\* inserted nothing
TaskErr(w) ==
    /\ worker[w] = "exec"
    /\ inflight' = [inflight EXCEPT ![w] = @ - 1]
    /\ failWorker(w)
    /\ UNCHANGED <<waited, startLines, calls, oks, rows>>

\* pool.Exec gives the statement up once its context is done and returns the
\* context's error; the database may have inserted the row already
TaskCtxErr(w) ==
    /\ worker[w] = "exec"
    /\ TaskCtxDone
    /\ inflight' = [inflight EXCEPT ![w] = @ - 1]
    /\ \E inserted \in BOOLEAN :
            rows' = IF inserted
                    THEN [rows EXCEPT ![TaskTable(w)] = CountRow(@)]
                    ELSE rows
    /\ failWorker(w)
    /\ UNCHANGED <<waited, startLines, calls, oks>>

\* a time.After that is ready as soon as it is made
TimerFiredAtOnce(w) ==
    /\ worker[w] = "wait"
    /\ callTask(w)
    /\ waited' = [waited EXCEPT ![w] = 0]
    /\ UNCHANGED startLines

\* select, case <-time.After(interval): loop into the next task(); when the
\* context is done too the select still may take this case
TimerFired(w) ==
    /\ worker[w] = "wait"
    /\ waited[w] >= interval[w]
    /\ callTask(w)
    /\ waited' = [waited EXCEPT ![w] = 0]
    /\ UNCHANGED startLines

\* what a return on ctx.Done() leaves alone
stopFrame ==
    /\ UNCHANGED <<flags, mainErr, ran, ctxDone, pc, mapLeft, started, interval, aside>>
    /\ UNCHANGED <<waited, startLines, errLines, inflight, calls, oks, rows>>

\* a wait that sleeps the interval out before it looks at the context
WaitCtxDoneAfterSleep(w) ==
    /\ worker[w] = "wait"
    /\ waited[w] >= interval[w]
    /\ ctxDone
    /\ worker' = [worker EXCEPT ![w] = "stopped"]
    /\ wgDone
    /\ stopFrame

\* select, case <-ctx.Done(): return; the timer is abandoned where it is
WaitCtxDone(w) ==
    /\ worker[w] = "wait"
    /\ ctxDone
    /\ worker' = [worker EXCEPT ![w] = "stopped"]
    /\ wgDone
    /\ stopFrame

\* interval == 0: select, case <-ctx.Done(): return
CheckCtxDone(w) ==
    /\ worker[w] = "check"
    /\ ctxDone
    /\ worker' = [worker EXCEPT ![w] = "stopped"]
    /\ wgDone
    /\ stopFrame

\* a loop that prints the start line on every iteration
CheckDefaultPrintingStart(w) ==
    /\ worker[w] = "check"
    /\ ~ctxDone
    /\ startLines' = [startLines EXCEPT ![w] = @ + 1]
    /\ callTask(w)
    /\ UNCHANGED waited

\* interval == 0: select, default: loop into the next task()
CheckDefault(w) ==
    /\ worker[w] = "check"
    /\ ~ctxDone
    /\ callTask(w)
    /\ UNCHANGED <<waited, startLines>>

\* one second passes on every running time.After timer
Tick ==
    /\ \E w \in TableNames : worker[w] = "wait" /\ waited[w] < interval[w]
    /\ waited' = [w \in TableNames |->
                    IF worker[w] = "wait" /\ waited[w] < interval[w]
                    THEN waited[w] + 1 ELSE waited[w]]
    /\ UNCHANGED <<flags, mainErr, ran, ctxDone, pc, mapLeft, wg, started, interval>>
    /\ UNCHANGED <<worker, startLines, errLines, inflight, calls, oks, rows, aside>>

Supervisor ==
    \/ RunTimestamp
    \/ RunBigTable
    \/ RunMainTables
    \/ RangeTables
    \/ RunEmployee
    \/ WgWait

WorkerStep(w) ==
    \/ GoStart(w)
    \/ TimerFired(w)
    \/ WaitCtxDone(w)
    \/ CheckCtxDone(w)
    \/ CheckDefault(w)

Next ==
    \/ Main
    \/ Interrupt
    \/ Supervisor
    \/ \E w \in TableNames : WorkerStep(w)
    \/ \E w \in TableNames : TaskOk(w)
    \/ \E w \in TableNames : TaskErr(w)
    \/ \E w \in TableNames : TaskCtxErr(w)
    \/ Tick

Spec == Init /\ [][Next]_vars

\* main and the Go scheduler run every runnable goroutine, pool.Exec returns
\* once its context is done, and time passes; the database need not ever
\* answer and the interrupt need not ever come.
Fairness ==
    /\ WF_vars(Main)
    /\ WF_vars(Supervisor)
    /\ \A w \in TableNames : WF_vars(WorkerStep(w))
    /\ \A w \in TableNames : WF_vars(TaskCtxErr(w))
    /\ WF_vars(Tick)

FairInit == InitWith(FairConfigFiles, CountOnce)

FairSpec == FairInit /\ [][Next]_vars /\ Fairness

\* the runs that count task calls, successes and rows, each up to MaxCount
CountInit == InitWith(FairConfigFiles, [calls |-> MaxCount, rows |-> MaxCount])

CountSpec == CountInit /\ [][Next]_vars

(***************************************************************************)
(* The timed run: timestamp_inserts alone, every 2 seconds, the interrupt  *)
(* 7 seconds after the start                                               *)
(***************************************************************************)

\* timestamp_inserts of the timed run
TimedCategory == [present |-> TRUE, enabled |-> TRUE, every_n_seconds |-> 2]

\* the configuration files of the timed run: the other two categories are
\* left out or spelled out disabled
TimedFiles ==
    {f \in [Categories -> CategoryJson \cup {TimedCategory}] :
        /\ f["timestamp_inserts"] = TimedCategory
        /\ EnabledIn(f) = {"timestamp_inserts"}}

TimedInit ==
    /\ InitWith(TimedFiles, [calls |-> 5, rows |-> 5])
    /\ args = InsertCommandLine

\* the signal arrives when the clock reads 7
TimedInterrupt ==
    /\ now = 7
    /\ Interrupt

\* one second passes.  Steps of the program take no time of their own: the
\* clock moves only while the worker sits in time.After with the timer not
\* yet due, or is inside pool.Exec, which returns in less than a second and
\* so sees at most one tick; the signal due at 7 comes before the clock
\* moves on.
ScenarioTick ==
    /\ pc = "wait"
    /\ now < 7 \/ ctxDone
    /\ \/ /\ worker["timestamp"] = "wait"
          /\ waited["timestamp"] < interval["timestamp"]
          /\ ~ctxDone
       \/ /\ worker["timestamp"] = "exec"
          /\ waited["timestamp"] = 0
    /\ now' = now + 1
    /\ waited' = [waited EXCEPT !["timestamp"] = @ + 1]
    /\ UNCHANGED <<args, cfg, limit, flags, mainErr, ran, ctxDone, pc, mapLeft>>
    /\ UNCHANGED <<wg, started, interval, worker, startLines, errLines, inflight>>
    /\ UNCHANGED <<calls, oks, rows, length, i, result, dialogue>>

TimedNext ==
    \/ ParseFlags
    \/ LoadConfig
    \/ ConnectPool
    \/ SwitchInsert
    \/ RunTimestamp
    \/ RunBigTable
    \/ RunMainTables
    \/ WgWait
    \/ GoStart("timestamp")
    \/ TimerFired("timestamp")
    \/ WaitCtxDone("timestamp")
    \/ TaskOk("timestamp")
    \/ TaskCtxErr("timestamp")
    \/ TimedInterrupt
    \/ ScenarioTick

TimedSpec == TimedInit /\ [][TimedNext]_vars

(***************************************************************************)
(* GenerateRandomString, one call followed byte by byte                    *)
(***************************************************************************)

\* the call has made its slice: length zero bytes, none written yet
GenInit ==
    /\ args = InsertCommandLine
    /\ cfg = loadConfig([c \in Categories |-> Absent])
    /\ pc = "generate"
    /\ mainStart(NoCount)
    /\ length \in 1..MaxLength
    /\ i = 0
    /\ result = [k \in 1..length |-> ZeroByte]
    /\ stdin = <<>>

genFrame ==
    /\ UNCHANGED <<args, cfg, limit, flags, mainErr, ran, ctxDone, mapLeft, wg>>
    /\ UNCHANGED <<started, interval, workers, now, length, dialogue>>

\* one iteration of the range over result
GenStep ==
    /\ pc = "generate"
    /\ i < Len(result)
    /\ \E n \in Uint64N(Len(alphabet)) :
            result' = [result EXCEPT ![i + 1] = IndexByte(alphabet, n)]
    /\ i' = i + 1
    /\ pc' = pc
    /\ genFrame

\* return string(result)
GenReturn ==
    /\ pc = "generate"
    /\ i = Len(result)
    /\ pc' = "generated"
    /\ UNCHANGED <<i, result>>
    /\ genFrame

GenNext == GenStep \/ GenReturn

GenSpec == GenInit /\ [][GenNext]_vars

(***************************************************************************)
(* The revision of runInsert that launches its goroutines inline           *)
(***************************************************************************)

\* the order the main-tables block starts its five goroutines in
InlineOrder == <<"artist", "genre", "media_type", "playlist", "employee">>

InlineFive == {InlineOrder[k] : k \in 1..Len(InlineOrder)}

\* the two WaitGroups of the function: the one declared at its top and the
\* one the main-tables block declares over it
InlineWaitGroups == [outer |-> 0, inner |-> 0]

\* the goroutines whose loop prints the error and goes on
InlineKeepsGoing(w) == w \in {"timestamp", "bigtable"}

InlineInit ==
    /\ InitWith(ConfigFiles, CountOnce)
    /\ args = InsertCommandLine

inlineLaunchFrame ==
    /\ UNCHANGED <<flags, mainErr, ran, ctxDone>>
    /\ UNCHANGED <<waited, errLines, inflight, calls, oks, rows, aside>>

\* var wg; the timestamp block: wg.Add(1) and the go statement
InlineTimestamp ==
    /\ pc = "timestamp"
    /\ IF cfg["timestamp_inserts"].Enabled
       THEN /\ wg' = [InlineWaitGroups EXCEPT !.outer = 1]
            /\ started' = [started EXCEPT !["timestamp"] = @ + 1]
            /\ interval' = [interval EXCEPT !["timestamp"] =
                                cfg["timestamp_inserts"].EveryNSeconds]
            /\ worker' = [worker EXCEPT !["timestamp"] = "start"]
       ELSE /\ wg' = InlineWaitGroups
            /\ UNCHANGED <<started, interval, worker>>
    /\ pc' = "bigtable"
    /\ UNCHANGED <<mapLeft, startLines>>
    /\ inlineLaunchFrame

\* the bigtable block: wg.Add(1) and the go statement
InlineBigTable ==
    /\ pc = "bigtable"
    /\ IF cfg["bigtable_inserts"].Enabled
       THEN /\ wg' = [wg EXCEPT !.outer = @ + 1]
            /\ started' = [started EXCEPT !["bigtable"] = @ + 1]
            /\ worker' = [worker EXCEPT !["bigtable"] = "start"]
       ELSE UNCHANGED <<wg, started, worker>>
    /\ pc' = "main"
    /\ UNCHANGED <<mapLeft, interval, startLines>>
    /\ inlineLaunchFrame

\* the main-tables block: its own var wg and wg.Add(5); when the category
\* is disabled the function ends here, with no Wait
InlineMainTables ==
    /\ pc = "main"
    /\ IF cfg["main_tables_inserts"].Enabled
       THEN /\ wg' = [wg EXCEPT !.inner = 5]
            /\ mapLeft' = InlineFive
            /\ pc' = "range"
       ELSE /\ pc' = "returned"
            /\ UNCHANGED <<wg, mapLeft>>
    /\ UNCHANGED <<started, interval, worker, startLines>>
    /\ inlineLaunchFrame

\* the next Println and go statement of the main-tables block
InlineGo ==
    /\ pc = "range"
    /\ mapLeft # {}
    /\ LET k == CHOOSE n \in 1..Len(InlineOrder) :
                    /\ InlineOrder[n] \in mapLeft
                    /\ \A m \in 1..(n - 1) : InlineOrder[m] \notin mapLeft
           name == InlineOrder[k]
       IN  /\ started' = [started EXCEPT ![name] = @ + 1]
           /\ worker' = [worker EXCEPT ![name] = "start"]
           /\ startLines' = [startLines EXCEPT ![name] = @ + 1]
           /\ mapLeft' = mapLeft \ {name}
           /\ pc' = IF mapLeft' = {} THEN "wait" ELSE pc
    /\ UNCHANGED <<wg, interval>>
    /\ inlineLaunchFrame

\* wg.Wait() of the main-tables block
InlineWaitReady == pc = "wait" /\ wg.inner = 0

InlineWait ==
    /\ InlineWaitReady
    /\ pc' = "returned"
    /\ UNCHANGED <<mapLeft, wg, started, interval, worker, startLines>>
    /\ inlineLaunchFrame

\* what a step of an inline goroutine leaves alone besides what it says
inlineWorkerFrame ==
    UNCHANGED <<flags, mainErr, ran, ctxDone, pc, mapLeft, started, interval, aside>>

\* pool.Exec under context.WithTimeout(context.Background(), ...)
inlineCall(w) ==
    /\ worker' = [worker EXCEPT ![w] = "exec"]
    /\ inflight' = [inflight EXCEPT ![w] = @ + 1]
    /\ calls' = [calls EXCEPT ![w] = CountCall(@)]
    /\ UNCHANGED <<wg, errLines, oks, rows>>
    /\ inlineWorkerFrame

\* where the loop is after a call: the timestamp loop sleeps, the others
\* are at the top of their for again
inlineAfterCall(w) == IF w = "timestamp" THEN "wait" ELSE "loop"

\* the goroutine is scheduled; the timestamp one prints its line first
InlineGoStart(w) ==
    /\ InRunInsert
    /\ worker[w] = "start"
    /\ startLines' = [startLines EXCEPT ![w] =
                        IF w = "timestamp" THEN @ + 1 ELSE @]
    /\ inlineCall(w)
    /\ UNCHANGED waited

\* err == nil
InlineTaskOk(w) ==
    /\ InRunInsert
    /\ worker[w] = "exec"
    /\ worker' = [worker EXCEPT ![w] = inlineAfterCall(w)]
    /\ waited' = [waited EXCEPT ![w] = 0]
    /\ inflight' = [inflight EXCEPT ![w] = @ - 1]
    /\ oks' = [oks EXCEPT ![w] = CountRow(@)]
    /\ rows' = [rows EXCEPT ![TaskTable(w)] = CountRow(@)]
    /\ UNCHANGED <<wg, startLines, errLines, calls>>
    /\ inlineWorkerFrame

\* err != nil, the timeout of the call included: the timestamp and bigtable
\* loops print and go on, the five others print and return
InlineTaskErr(w) ==
    /\ InRunInsert
    /\ worker[w] = "exec"
    /\ inflight' = [inflight EXCEPT ![w] = @ - 1]
    /\ errLines' = [errLines EXCEPT ![w] = CountCall(@)]
    /\ waited' = [waited EXCEPT ![w] = 0]
    /\ IF InlineKeepsGoing(w)
       THEN /\ worker' = [worker EXCEPT ![w] = inlineAfterCall(w)]
            /\ wg' = wg
       ELSE /\ worker' = [worker EXCEPT ![w] = "failed"]
            /\ wg' = [wg EXCEPT !.inner = @ - 1]
    /\ UNCHANGED <<startLines, calls, oks, rows>>
    /\ inlineWorkerFrame

\* the next iteration of a for without a sleep
InlineLoop(w) ==
    /\ InRunInsert
    /\ worker[w] = "loop"
    /\ inlineCall(w)
    /\ UNCHANGED <<waited, startLines>>

\* time.Sleep returns
InlineSleepDone(w) ==
    /\ InRunInsert
    /\ worker[w] = "wait"
    /\ waited[w] >= interval[w]
    /\ inlineCall(w)
    /\ UNCHANGED <<waited, startLines>>

InlineWorkerStep(w) ==
    \/ InlineGoStart(w)
    \/ InlineTaskOk(w)
    \/ InlineTaskErr(w)
    \/ InlineLoop(w)
    \/ InlineSleepDone(w)

InlineNext ==
    \/ ParseFlags
    \/ LoadConfig
    \/ ConnectPool
    \/ SwitchInsert
    \/ Interrupt
    \/ InlineTimestamp
    \/ InlineBigTable
    \/ InlineMainTables
    \/ InlineGo
    \/ InlineWait
    \/ \E w \in TableNames : InlineWorkerStep(w)
    \/ InRunInsert /\ Tick

InlineSpec == InlineInit /\ [][InlineNext]_vars

(***************************************************************************)
(* The older runInsert: one loop in the calling goroutine, chosen by       *)
(* inserter.mode                                                           *)
(***************************************************************************)

\* strings.ToLower, on the spellings of the model
ToLower(m) ==
    CASE m = "Timestamp-Only" -> "timestamp-only"
      [] m = "TIMESTAMP-ONLY" -> "timestamp-only"
      [] OTHER                -> m

\* the modes of the files the single-loop runs start from: the older
\* loadConfig lets them through, and runInsert starts no goroutine for them
SingleModes == {"timestamp-only", "Timestamp-Only", "realistic-data"}

SingleInit ==
    /\ args = InsertCommandLine
    /\ cfg \in [Mode : SingleModes, EveryNSeconds : 0..MaxEvery]
    /\ pc = "parse"
    /\ mainStart([calls |-> MaxCount + 1, rows |-> MaxCount])
    /\ length = 0
    /\ i = 0
    /\ result = <<>>
    /\ stdin = <<>>

singleFrame ==
    /\ UNCHANGED <<flags, mainErr, ran, ctxDone, mapLeft, wg, started, aside>>

\* pool.Exec under context.WithTimeout(context.Background(), 3*time.Second)
singleCall ==
    /\ worker' = [worker EXCEPT !["timestamp"] = "exec"]
    /\ inflight' = [inflight EXCEPT !["timestamp"] = @ + 1]
    /\ calls' = [calls EXCEPT !["timestamp"] = CountCall(@)]

\* runInsert is called: in timestamp-only mode it prints its line and
\* enters the loop, in a mode with no branch of its own it returns
SingleEnter ==
    /\ pc = "timestamp"
    /\ IF ToLower(cfg.Mode) = "timestamp-only"
       THEN /\ pc' = "loop"
            /\ startLines' = [startLines EXCEPT !["timestamp"] = @ + 1]
            /\ singleCall
       ELSE /\ pc' = "returned"
            /\ UNCHANGED <<startLines, worker, inflight, calls>>
    /\ UNCHANGED <<interval, waited, errLines, oks, rows>>
    /\ singleFrame

\* err == nil: time.Sleep(EveryNSeconds)
SingleTaskOk ==
    /\ pc = "loop"
    /\ worker["timestamp"] = "exec"
    /\ worker' = [worker EXCEPT !["timestamp"] = "wait"]
    /\ interval' = [interval EXCEPT !["timestamp"] = cfg.EveryNSeconds]
    /\ waited' = [waited EXCEPT !["timestamp"] = 0]
    /\ inflight' = [inflight EXCEPT !["timestamp"] = @ - 1]
    /\ oks' = [oks EXCEPT !["timestamp"] = CountRow(@)]
    /\ rows' = [rows EXCEPT !["timestamp"] = CountRow(@)]
    /\ UNCHANGED <<pc, startLines, errLines, calls>>
    /\ singleFrame

\* a loop that prints the error and returns
SingleTaskErrReturning ==
    /\ pc = "loop"
    /\ worker["timestamp"] = "exec"
    /\ worker' = [worker EXCEPT !["timestamp"] = "failed"]
    /\ pc' = "returned"
    /\ inflight' = [inflight EXCEPT !["timestamp"] = @ - 1]
    /\ errLines' = [errLines EXCEPT !["timestamp"] = CountCall(@)]
    /\ UNCHANGED <<interval, waited, startLines, calls, oks, rows>>
    /\ singleFrame

\* err != nil, the timeout of the call included: the "will retry" line,
\* time.Sleep(1 * time.Second) and continue
SingleTaskErr ==
    /\ pc = "loop"
    /\ worker["timestamp"] = "exec"
    /\ worker' = [worker EXCEPT !["timestamp"] = "retry"]
    /\ interval' = [interval EXCEPT !["timestamp"] = 1]
    /\ waited' = [waited EXCEPT !["timestamp"] = 0]
    /\ inflight' = [inflight EXCEPT !["timestamp"] = @ - 1]
    /\ errLines' = [errLines EXCEPT !["timestamp"] = CountCall(@)]
    /\ UNCHANGED <<pc, startLines, calls, oks, rows>>
    /\ singleFrame

\* time.Sleep returns and the loop calls pool.Exec again
SingleSleepDone ==
    /\ pc = "loop"
    /\ worker["timestamp"] \in {"wait", "retry"}
    /\ waited["timestamp"] >= interval["timestamp"]
    /\ singleCall
    /\ UNCHANGED <<pc, interval, waited, startLines, errLines, oks, rows>>
    /\ singleFrame

\* one second of a time.Sleep passes
SingleTick ==
    /\ pc = "loop"
    /\ worker["timestamp"] \in {"wait", "retry"}
    /\ waited["timestamp"] < interval["timestamp"]
    /\ waited' = [waited EXCEPT !["timestamp"] = @ + 1]
    /\ UNCHANGED <<pc, interval, worker, startLines, errLines, inflight>>
    /\ UNCHANGED <<calls, oks, rows>>
    /\ singleFrame

SingleNext ==
    \/ ParseFlags
    \/ LoadConfig
    \/ ConnectPool
    \/ SwitchInsert
    \/ SingleEnter
    \/ SingleTaskOk
    \/ SingleTaskErr
    \/ SingleSleepDone
    \/ SingleTick

\* main runs, time passes and a sleep that is over returns; pool.Exec
\* returns within its three seconds, one way or the other
SingleFairness ==
    /\ WF_vars(ParseFlags \/ LoadConfig \/ ConnectPool \/ SwitchInsert \/ SingleEnter)
    /\ WF_vars(SingleTaskOk \/ SingleTaskErr)
    /\ WF_vars(SingleSleepDone)
    /\ WF_vars(SingleTick)

SingleSpec == SingleInit /\ [][SingleNext]_vars /\ SingleFairness

(***************************************************************************)
(* dropTables, from SendBatch on                                           *)
(***************************************************************************)

DropInit ==
    /\ args = DropCommandLine
    /\ cfg = loadConfig([c \in Categories |-> Absent])
    /\ pc = "parse"
    /\ mainStart(NoCount)
    /\ length = 0
    /\ i = 0
    /\ result = <<>>
    /\ stdin \in Stdins

dropFrame ==
    /\ UNCHANGED <<flags, mainErr, ran, ctxDone, mapLeft, wg, started, interval>>
    /\ UNCHANGED <<workers, given, stdin, input, batch>>

\* one iteration of the loop over the results: results.Exec() for the next
\* table, its "Dropped table" line, or the error return that names it
DropExec ==
    /\ pc = "drop"
    /\ Len(printed) < Len(DropTableNames)
    /\ LET t == DropTableNames[Len(printed) + 1]
       IN  \E ok \in BOOLEAN :
                IF ok
                THEN /\ printed' = Append(printed, t)
                     /\ dropErr' = dropErr
                     /\ pc' = pc
                ELSE /\ printed' = printed
                     /\ dropErr' = <<"dropping table failed", t>>
                     /\ pc' = "exit"
    /\ dropFrame

\* return nil
DropReturn ==
    /\ pc = "drop"
    /\ Len(printed) = Len(DropTableNames)
    /\ pc' = "exit"
    /\ UNCHANGED <<printed, dropErr>>
    /\ dropFrame

DropNext ==
    \/ ParseFlags
    \/ LoadConfig
    \/ ConnectPool
    \/ SwitchDropTables
    \/ DropExec
    \/ DropReturn

DropSpec == DropInit /\ [][DropNext]_vars

(***************************************************************************)
(* Vocabulary of the claims                                                *)
(***************************************************************************)

\* main has called runInsert
RunInsertCalled == "insert" \in ran

\* InsertWorker state Stopped: the goroutine has returned
Stopped(w) == worker[w] \in {"stopped", "failed"}

\* the workers runInsert has launched so far
Launched == {w \in TableNames : started[w] > 0}

\* the category whose Enabled flag gates the worker of a table
CategoryOf(w) ==
    CASE w = "timestamp" -> "timestamp_inserts"
      [] w = "bigtable"  -> "bigtable_inserts"
      [] OTHER           -> "main_tables_inserts"

\* the every_n_seconds configured for the category of a worker
EveryNSeconds(w) == cfg[CategoryOf(w)].EveryNSeconds

\* the worker can go on into a task execution from where it is
CanExecute(w) ==
    /\ worker[w] = "start" => ENABLED (GoStart(w) /\ worker'[w] = "exec")
    /\ worker[w] = "exec" => ENABLED TaskOk(w)
    /\ worker[w] = "check" => ENABLED (CheckDefault(w) /\ worker'[w] = "exec")
    /\ worker[w] = "wait" =>
            IF waited[w] >= interval[w]
            THEN ENABLED (TimerFired(w) /\ worker'[w] = "exec")
            ELSE ENABLED Tick

(***************************************************************************)
(* C1: runInsert never returns while a worker it launched is still         *)
(* running: whenever runInsert has returned, every worker started through  *)
(* startInsertWorker has left its loop.                                    *)
(***************************************************************************)
C1_ReturnedImpliesAllStopped ==
    pc = "returned" => \A w \in Launched : Stopped(w)

\* runInsert has returned after a timestamp worker stopped on the signal
\* and a bigtable worker stopped on an error
C1_Witness ==
    /\ pc = "returned"
    /\ worker["timestamp"] = "stopped"
    /\ worker["bigtable"] = "failed"

\* the step in which the task of w fails moves nothing but w
C2_FailureStepIsLocal ==
    \A w \in TableNames :
        (worker[w] # "failed" /\ worker'[w] = "failed") =>
            /\ ctxDone' = ctxDone
            /\ pc' = pc
            /\ \A v \in TableNames \ {w} :
                    worker'[v] = worker[v] /\ waited'[v] = waited[v]

\* beside a failed worker, every sibling still in its loop can execute
C2_SiblingsCanExecute ==
    \A w \in TableNames :
        (worker[w] = "failed" /\ ~ctxDone) =>
            \A v \in Launched \ {w} : ~Stopped(v) => CanExecute(v)

(***************************************************************************)
(* C2: failure isolation.  The step in which one worker's task fails       *)
(* changes that worker and the WaitGroup only: the shared context stays as *)
(* it is and no sibling moves; and while the context is not done, every    *)
(* sibling of a failed worker that has not stopped can go on into a task   *)
(* execution.                                                              *)
(***************************************************************************)
C2_FailureIsolation ==
    /\ []C2_SiblingsCanExecute
    /\ [][C2_FailureStepIsLocal]_vars

\* one main-tables worker has failed, no interrupt came, and its siblings
\* are executing, checking the context or about to start
C2_Witness ==
    /\ ~ctxDone
    /\ worker["artist"] = "failed"
    /\ worker["genre"] = "exec"
    /\ worker["playlist"] = "check"
    /\ worker["employee"] = "start"

(***************************************************************************)
(* C3: shutdown liveness.  Once the interrupt has closed ctx.Done(), every *)
(* worker runInsert launched eventually stops and runInsert returns,       *)
(* whether the worker was executing, waiting out its interval or looping   *)
(* with interval 0 (under Fairness: goroutines are scheduled and a task    *)
(* call returns once its context is done).                                 *)
(***************************************************************************)
C3_ShutdownLiveness ==
    (ctxDone /\ RunInsertCalled) ~>
        (pc = "returned" /\ \A w \in Launched : Stopped(w))

\* all launched workers have stopped and runInsert has returned after an
\* interrupt that found the timestamp worker inside its interval
C3_Witness ==
    /\ ctxDone
    /\ pc = "returned"
    /\ worker["timestamp"] = "stopped"
    /\ waited["timestamp"] < interval["timestamp"]

\* a waiting worker can stop as soon as the context is done
C4_CanStopAtOnce ==
    \A w \in TableNames :
        (ctxDone /\ worker[w] = "wait") =>
            ENABLED (WorkerStep(w) /\ worker'[w] = "stopped" /\ waited'[w] = waited[w])

\* inside its interval, with the context done, a waiting worker only stops
C4_StopsFromWaiting ==
    \A w \in TableNames :
        (ctxDone /\ worker[w] = "wait" /\ waited[w] < interval[w]
                 /\ worker'[w] # worker[w]) =>
            worker'[w] = "stopped"

(***************************************************************************)
(* C4: the inter-iteration wait is interruptible.  A worker that is        *)
(* waiting when the context is done can stop at once, whatever is left of  *)
(* its interval; and while the interval has not elapsed the only move it   *)
(* makes is to Stopped: it starts no further task execution.               *)
(***************************************************************************)
C4_WaitIsInterruptible ==
    /\ []C4_CanStopAtOnce
    /\ [][C4_StopsFromWaiting]_vars

\* the timestamp worker stopped on the signal with its interval not elapsed
C4_Witness ==
    /\ worker["timestamp"] = "stopped"
    /\ interval["timestamp"] > 0
    /\ waited["timestamp"] < interval["timestamp"]

(***************************************************************************)
(* C5: every task execution returns on its own, held by a per-call         *)
(* deadline, even if the interrupt never comes and the database never      *)
(* answers: a worker that is inside an execution eventually leaves it.     *)
(***************************************************************************)
C5_EveryExecutionReturns ==
    \A w \in TableNames : (worker[w] = "exec") ~> (worker[w] # "exec")

\* a worker calls its task again only with every_n_seconds elapsed
C6_NextCallAfterEveryNSeconds ==
    \A w \in TableNames :
        (/\ EveryNSeconds(w) > 0
         /\ worker[w] \in {"wait", "check"}
         /\ worker'[w] \in {"exec", "failed"}) =>
            waited[w] >= EveryNSeconds(w)

(***************************************************************************)
(* C6: for every enabled category whose every_n_seconds is k > 0, each     *)
(* worker of the category lets at least k seconds pass between the end of  *)
(* a successful execution and its next call of the task.                   *)
(***************************************************************************)
C6_WaitsEveryNSeconds == [][C6_NextCallAfterEveryNSeconds]_vars

\* no worker with interval 0 is in the timer select
C7_NeverWaiting ==
    \A w \in TableNames : interval[w] = 0 => worker[w] # "wait"

\* after a success, with the context not done, the next call can come at once
C7_CanLoopAtOnce ==
    \A w \in TableNames :
        (interval[w] = 0 /\ worker[w] = "check" /\ ~ctxDone) =>
            ENABLED (WorkerStep(w) /\ worker'[w] = "exec")

\* the moves of a worker with interval 0 while the context is not done
C7_RunningToRunning ==
    \A w \in TableNames :
        (interval[w] = 0 /\ ~ctxDone /\ worker'[w] # worker[w]) =>
            /\ worker[w] = "exec" => worker'[w] \in {"check", "failed"}
            /\ worker[w] = "check" => worker'[w] = "exec" /\ waited' = waited

(***************************************************************************)
(* C7: a worker whose interval is zero is never Waiting; after a           *)
(* successful execution, with the context not done, it can call the task   *)
(* again at once and that call is the only move it makes (Running to       *)
(* Running, no timer in between).                                          *)
(***************************************************************************)
C7_IntervalZeroLoops ==
    /\ [](C7_NeverWaiting /\ C7_CanLoopAtOnce)
    /\ [][C7_RunningToRunning]_vars

\* a timestamp worker configured with every_n_seconds 0 has finished an
\* execution and is at the context check, with no interrupt
C7_Witness ==
    /\ ~ctxDone
    /\ interval["timestamp"] = 0
    /\ worker["timestamp"] = "check"

\* the workers the Enabled flags call for
C8_Expected ==
    (IF cfg["timestamp_inserts"].Enabled THEN {"timestamp"} ELSE {})
    \cup (IF cfg["bigtable_inserts"].Enabled THEN {"bigtable"} ELSE {})
    \cup (IF cfg["main_tables_inserts"].Enabled
          THEN {"artist", "genre", "media_type", "playlist", "employee"}
          ELSE {})

(***************************************************************************)
(* C8: the workers runInsert launches are determined by the Enabled flags  *)
(* alone: timestamp iff timestamp inserts are enabled, bigtable iff        *)
(* bigtable inserts are enabled, and artist, genre, media_type, playlist   *)
(* and employee, once each, iff main-tables inserts are enabled; a         *)
(* category that is disabled or missing from the file launches none.       *)
(***************************************************************************)
C8_LaunchSet ==
    /\ \A w \in TableNames : started[w] <= 1
    /\ Launched \subseteq C8_Expected
    /\ pc \in {"wait", "returned"} => Launched = C8_Expected
    /\ pc = "timestamp" =>
            \A f \in ConfigFiles : \A c \in Categories :
                (cfg = loadConfig(f) /\ ~f[c].present) => ~cfg[c].Enabled

\* runInsert is waiting with the timestamp worker and the five main-tables
\* workers launched and no bigtable worker, bigtable being spelled out as
\* disabled with a cadence
C8_Witness ==
    /\ pc = "wait"
    /\ ~cfg["bigtable_inserts"].Enabled
    /\ cfg["bigtable_inserts"].EveryNSeconds > 0
    /\ Launched = TableNames \ {"bigtable"}

\* the configuration enables no category
C9_NoneEnabled == \A c \in Categories : ~cfg[c].Enabled

(***************************************************************************)
(* C9: with no category enabled runInsert launches nothing, runs no task,  *)
(* and goes through to its return without ever blocking, interrupt or not. *)
(***************************************************************************)
C9_ReturnsImmediately ==
    C9_NoneEnabled =>
        /\ Launched = {}
        /\ wg = 0
        /\ \A w \in TableNames : worker[w] = "none"
        /\ InRunInsert => ENABLED Supervisor

\* runInsert has returned with nothing enabled and no interrupt
C9_Witness ==
    /\ C9_NoneEnabled
    /\ pc = "returned"
    /\ ~ctxDone

\* runInsert is in wg.Wait() and every worker it launched has stopped
C10_AllStopped == pc = "wait" /\ \A w \in Launched : Stopped(w)

(***************************************************************************)
(* C10: runInsert returns once all the workers it launched have stopped,   *)
(* whatever stopped them; in particular when every worker stopped on a     *)
(* task error and no interrupt ever came.  Its only way out is the return  *)
(* after wg.Wait().                                                        *)
(***************************************************************************)
C10_ReturnsOnceAllStopped ==
    /\ C10_AllStopped ~> (pc = "returned")
    /\ [][pc' = "returned" => (pc \in {"wait", "returned"} /\ wg = 0)]_vars

\* runInsert has returned, no interrupt came, and all five main-tables
\* workers stopped on a task error
C10_Witness ==
    /\ pc = "returned"
    /\ ~ctxDone
    /\ \A w \in tables \cup {"employee"} : worker[w] = "failed"

\* a worker that has printed its failure line has left its loop
C11_ErrorStops ==
    \A w \in TableNames :
        /\ errLines[w] <= 1
        /\ errLines[w] = 1 <=> worker[w] = "failed"

\* a worker that has failed has no step left: no task call, no wait
C11_FailedStays ==
    \A w \in TableNames :
        worker[w] = "failed" =>
            /\ inflight[w] = 0
            /\ ~ENABLED (WorkerStep(w) \/ TaskOk(w) \/ TaskErr(w) \/ TaskCtxErr(w))

(***************************************************************************)
(* C11: no retry in the concurrent worker path.  A worker whose task       *)
(* returned an error prints the failure line once and is Stopped in the    *)
(* same step, and from then on it calls its task no more.                  *)
(***************************************************************************)
C11_NoRetry == C11_ErrorStops /\ C11_FailedStays

\* the bigtable worker stopped on a task error with no interrupt, while the
\* timestamp worker carries on in its interval
C11_Witness ==
    /\ ~ctxDone
    /\ worker["bigtable"] = "failed"
    /\ errLines["bigtable"] = 1
    /\ worker["timestamp"] = "wait"

(***************************************************************************)
(* C12: cancellation is cooperative, not preemptive.  An execution that is *)
(* in flight when the signal fires is not given up on the signal: while    *)
(* the worker is inside pool.Exec with the context done, the call cannot   *)
(* return the context's error; it returns what the database answers.       *)
(***************************************************************************)
C12_InFlightRunsToCompletion ==
    \A w \in TableNames :
        (worker[w] = "exec" /\ ctxDone) => ~ENABLED TaskCtxErr(w)

(***************************************************************************)
(* C13: within one worker, task executions are strictly sequential.  Each  *)
(* worker has at most one execution in flight, and it starts one only when *)
(* none of its own is in flight (a statement is in flight exactly while    *)
(* the worker is inside task()); there is one goroutine per table.         *)
(***************************************************************************)
C13_Sequential ==
    \A w \in TableNames :
        /\ inflight[w] \in {0, 1}
        /\ inflight[w] = 1 <=> worker[w] = "exec"
        /\ started[w] <= 1

\* two workers execute at the same time, one statement each, and a third,
\* between two executions, has none in flight
C13_Witness ==
    /\ inflight["artist"] = 1
    /\ inflight["genre"] = 1
    /\ worker["employee"] = "check"
    /\ inflight["employee"] = 0

\* no worker exists and the database has not been touched
C14_NothingDone ==
    /\ ran = {}
    /\ wg = 0
    /\ \A w \in TableNames :
        /\ started[w] = 0
        /\ worker[w] = "none"
        /\ inflight[w] = 0
        /\ rows[w] = 0

(***************************************************************************)
(* C14: when parseAndValidateFlags, loadConfig or connectPool returns an   *)
(* error, main prints it and returns: no case of its switch runs, no       *)
(* insert worker is launched and no statement goes to the database, then   *)
(* or later.                                                               *)
(***************************************************************************)
C14_StartupErrorsLaunchNothing ==
    mainErr # Nil => (pc = "exit" /\ C14_NothingDone /\ ~ENABLED Next)

\* main has returned on the error of connectPool, the command line and the
\* configuration asking for inserts
C14_Witness ==
    /\ mainErr = "database connection failed"
    /\ pc = "exit"
    /\ flags # NoFlags
    /\ flags.Insert
    /\ cfg["main_tables_inserts"].Enabled

\* the action flags a command line sets
C18_ActionsSet(a) == {n \in ActionNames : a.action[n]}

(***************************************************************************)
(* C18: parseAndValidateFlags returns CommandFlags exactly for the command *)
(* lines with a non-empty --config and exactly one of the five action      *)
(* flags, and an error and nil for all others; the flags it returns are    *)
(* the ones given, and main runs at most one action, the one given.        *)
(***************************************************************************)
C18_ExactlyOneAction ==
    /\ pc # "parse" =>
        /\ flags # NoFlags <=>
                (args.config # "" /\ Cardinality(C18_ActionsSet(args)) = 1)
        /\ flags = NoFlags <=>
                mainErr \in {"--config is required", "one action is required",
                             "only one action can be specified at a time"}
        /\ flags = NoFlags => (pc = "exit" /\ ran = {})
        /\ flags # NoFlags =>
                /\ flags.ConfigPath = args.config
                /\ flags.Insert = args.action["insert"]
                /\ flags.DropTables = args.action["drop-tables"]
                /\ flags.Recreate = args.action["recreate"]
                /\ flags.Validate = args.action["validate"]
                /\ flags.CreateTables = args.action["create-tables"]
    /\ Cardinality(ran) <= 1
    /\ ran \subseteq C18_ActionsSet(args)

\* main has run --create-tables, the one action of its command line
C18_Witness ==
    /\ pc = "exit"
    /\ ran = {"create-tables"}
    /\ C18_ActionsSet(args) = {"create-tables"}

\* with the signal raised, a waiting worker only stays or stops
C19_OnlyStopsOnceCancelled ==
    \A w \in TableNames :
        (worker[w] = "wait" /\ ctxDone) => worker'[w] \in {"wait", "stopped"}

(***************************************************************************)
(* C19: a worker with interval > 0 goes from Waiting back into a task      *)
(* execution only if no cancellation has occurred: with the signal raised  *)
(* no step takes a waiting worker into a call of its task, also when the   *)
(* timer and ctx.Done() are both ready at the select.                      *)
(***************************************************************************)
C19_NoExecutionOutOfWaitingOnceCancelled == [][C19_OnlyStopsOnceCancelled]_vars

\* runInsert was called with main-tables inserts enabled and nothing else
C15_Scenario ==
    /\ RunInsertCalled
    /\ cfg["main_tables_inserts"].Enabled
    /\ ~cfg["timestamp_inserts"].Enabled
    /\ ~cfg["bigtable_inserts"].Enabled

\* the five workers of the main-tables category
C15_Five == {"artist", "genre", "media_type", "playlist", "employee"}

\* all five have stopped and each has called its task at least once
C15_AllStoppedAfterExecuting ==
    \A w \in C15_Five : Stopped(w) /\ calls[w] >= 1

(***************************************************************************)
(* C15: with only main-tables inserts enabled, runInsert launches the five *)
(* workers artist, genre, media_type, playlist and employee, all with      *)
(* interval 0; once the signal has fired all five reach Stopped; and a     *)
(* worker that is Stopped has called its task at least once, because the   *)
(* loop calls task() before it first looks at the context.                 *)
(***************************************************************************)
C15_MainTablesScenario ==
    /\ [](C15_Scenario =>
            /\ pc \in {"wait", "returned"} =>
                    /\ Launched = C15_Five
                    /\ \A w \in C15_Five : interval[w] = 0
            /\ \A w \in C15_Five : Stopped(w) => calls[w] >= 1)
    /\ (C15_Scenario /\ ctxDone) ~> C15_AllStoppedAfterExecuting

\* the signal has fired, the five workers have stopped on it after a
\* successful execution each, and runInsert has returned
C15_Witness ==
    /\ C15_Scenario
    /\ ctxDone
    /\ pc = "returned"
    /\ \A w \in C15_Five : worker[w] = "stopped" /\ calls[w] = 1

(***************************************************************************)
(* C16: with timestamp_inserts alone enabled every 2 seconds, executions   *)
(* that take less than a second, and the interrupt 7 seconds after the     *)
(* start, the timestamp worker never makes a fifth call, and once it has   *)
(* stopped it has made between 2 and 4 executions: at least 2 succeeded    *)
(* and at most 4 were called.                                              *)
(***************************************************************************)
C16_BetweenTwoAndFour ==
    /\ calls["timestamp"] <= 4
    /\ oks["timestamp"] <= calls["timestamp"]
    /\ Stopped("timestamp") =>
            /\ ctxDone /\ now >= 7
            /\ oks["timestamp"] >= 2
            /\ calls["timestamp"] >= 2

C16_Witness ==
    /\ pc = "returned"
    /\ worker["timestamp"] = "stopped"
    /\ now = 7
    /\ oks["timestamp"] = 4
    /\ calls["timestamp"] = 4

\* the 62 symbols a-z, A-Z, 0-9
C17_Symbols ==
    {"a", "b", "c", "d", "e", "f", "g", "h", "i", "j", "k", "l", "m",
     "n", "o", "p", "q", "r", "s", "t", "u", "v", "w", "x", "y", "z"} \cup
    {"A", "B", "C", "D", "E", "F", "G", "H", "I", "J", "K", "L", "M",
     "N", "O", "P", "Q", "R", "S", "T", "U", "V", "W", "X", "Y", "Z"} \cup
    {"0", "1", "2", "3", "4", "5", "6", "7", "8", "9"}

(***************************************************************************)
(* C17: for every length > 0 GenerateRandomString(length) returns exactly  *)
(* length characters, each one of the 62 symbols a-z, A-Z, 0-9: no index   *)
(* drawn falls outside the alphabet, so every byte written so far is one   *)
(* of the symbols, and at the return all length bytes have been written.   *)
(***************************************************************************)
C17_LengthAndAlphabet ==
    /\ Cardinality(C17_Symbols) = 62
    /\ Len(result) = length
    /\ \A k \in 1..i : result[k] \in C17_Symbols
    /\ pc = "generated" => i = length

C17_Witness ==
    /\ pc = "generated"
    /\ length = MaxLength
    /\ result[1] = "a"
    /\ result[length] = "9"

(***************************************************************************)
(* C20: row accounting per table.  For every table the number of rows      *)
(* inserted equals the number of task executions of that table's worker    *)
(* that returned nil: an execution inserts into the worker's own table     *)
(* only, and an execution that returned an error inserted nothing.         *)
(***************************************************************************)
C20_RowsEqualSuccesses == \A t \in TableNames : rows[t] = oks[t]

(***************************************************************************)
(* C21: observable output.  A worker prints its start line once, when its  *)
(* goroutine is scheduled and before its first task(): none while it has   *)
(* not run, exactly one from then on.  It prints a failure line only when  *)
(* a task() returned an error, at most once, and that is how it ended; a   *)
(* worker that returned on ctx.Done() has printed no failure line.         *)
(***************************************************************************)
C21_OutputLines ==
    \A w \in TableNames :
        /\ startLines[w] = IF worker[w] \in {"none", "start"} THEN 0 ELSE 1
        /\ inflight[w] > 0 => startLines[w] = 1
        /\ errLines[w] = IF worker[w] = "failed" THEN 1 ELSE 0
        /\ worker[w] = "stopped" => errLines[w] = 0

C21_Witness ==
    /\ worker["timestamp"] = "stopped"
    /\ startLines["timestamp"] = 1
    /\ errLines["timestamp"] = 0
    /\ interval["timestamp"] > 0
    /\ worker["bigtable"] = "failed"
    /\ startLines["bigtable"] = 1
    /\ errLines["bigtable"] = 1

(***************************************************************************)
(* C22: after the interrupt every step a worker goroutine can take is its  *)
(* last: it returns on ctx.Done(), or it calls task() once more with the   *)
(* cancelled context, gets the context's error and returns.  So a worker   *)
(* starts at most one further execution after the signal, whether its      *)
(* interval is 0 or not, and nothing is sent to the database by it.        *)
(***************************************************************************)
C22_LastStep ==
    \A w \in TableNames :
        (ctxDone /\ WorkerStep(w)) =>
            /\ worker'[w] \in {"stopped", "failed"}
            /\ inflight'[w] <= inflight[w]

C22_AtMostOneFurtherExecution == [][C22_LastStep]_vars

\* after the interrupt the timestamp worker called task() once more from its
\* wait and ended on the error, and the bigtable worker has yet to be run
C22_Witness ==
    /\ ctxDone
    /\ interval["timestamp"] > 0
    /\ worker["timestamp"] = "failed"
    /\ errLines["timestamp"] = 1
    /\ worker["bigtable"] = "start"
    /\ ENABLED GoStart("bigtable")

\* a worker that has returned is left as it is and is not started again
C23_StoppedStays ==
    \A w \in TableNames :
        Stopped(w) =>
            /\ worker'[w] = worker[w]
            /\ started'[w] = started[w]
            /\ inflight'[w] = inflight[w]
            /\ waited'[w] = waited[w]

(***************************************************************************)
(* C23: Stopped is absorbing and the signal is never reset.  A worker that *)
(* has returned, on ctx.Done() or on an error, never calls task() or waits *)
(* again and is never started again; and once ctx.Done() is closed it      *)
(* stays closed for the rest of the run.                                   *)
(***************************************************************************)
C23_StoppedAbsorbingSignalKept ==
    [][C23_StoppedStays /\ (ctxDone => ctxDone')]_vars

\* the signal has come, one map-table worker has returned on it and the
\* program goes on: another worker is still inside pool.Exec
C23_Witness ==
    /\ ctxDone
    /\ pc = "wait"
    /\ worker["artist"] = "stopped"
    /\ worker["playlist"] = "failed"
    /\ worker["genre"] = "exec"
    /\ ENABLED TaskOk("genre")

(***************************************************************************)
(* C24: in the revision that launches its goroutines inline, runInsert     *)
(* returns only when every worker it started has stopped, the timestamp    *)
(* and bigtable workers included when main_tables_inserts is disabled.     *)
(***************************************************************************)
C24_InlineBlocksUntilAllStopped ==
    pc = "returned" => \A w \in Launched : Stopped(w)

\* where the single loop stands, and what its sleep is
C25_LoopShape ==
    pc = "loop" =>
        /\ worker["timestamp"] \in {"exec", "retry", "wait"}
        /\ worker["timestamp"] = "retry" =>
                interval["timestamp"] = 1 /\ errLines["timestamp"] >= 1
        /\ worker["timestamp"] = "wait" =>
                interval["timestamp"] = cfg.EveryNSeconds

\* the loop is never left, an error is followed by the retry sleep, a
\* success by the configured one, and the retry sleep ends, after its one
\* second, in the next pool.Exec
C25_LoopStep ==
    /\ pc = "loop" => pc' = "loop"
    /\ errLines'["timestamp"] > errLines["timestamp"] =>
            worker'["timestamp"] = "retry"
    /\ oks'["timestamp"] > oks["timestamp"] =>
            worker'["timestamp"] = "wait"
    /\ (worker["timestamp"] = "retry" /\ worker'["timestamp"] # "retry") =>
            /\ worker'["timestamp"] = "exec"
            /\ waited["timestamp"] = 1

(***************************************************************************)
(* C25: in the older single-loop timestamp-only path a failed insert is    *)
(* retried.  After an error the loop sleeps one second and calls again,    *)
(* after a success it sleeps every_n_seconds; no error makes it leave the  *)
(* loop; and every failure is eventually followed by another attempt.      *)
(***************************************************************************)
C25_FailedInsertIsRetried ==
    /\ []C25_LoopShape
    /\ [][C25_LoopStep]_vars
    /\ (worker["timestamp"] = "retry") ~> (worker["timestamp"] = "exec")

\* the second call of the loop, made after the first one failed
C25_Witness ==
    /\ pc = "loop"
    /\ worker["timestamp"] = "exec"
    /\ calls["timestamp"] = 2
    /\ errLines["timestamp"] = 1
    /\ oks["timestamp"] = 0

\* where the first line of standard input ends
C26_LineEnds ==
    {n \in 0..Len(stdin) :
        /\ \A k \in 1..(n - 1) : stdin[k] # "\n"
        /\ n = Len(stdin) \/ (n >= 1 /\ stdin[n] = "\n")}

\* yes or y in any case
C26_YesOrY(core) ==
    \/ /\ Len(core) = 3
       /\ core[1] \in {"y", "Y"}
       /\ core[2] \in {"e", "E"}
       /\ core[3] \in {"s", "S"}
    \/ /\ Len(core) = 1
       /\ core[1] \in {"y", "Y"}

\* the first line of standard input is yes or y, in any case, between
\* blanks
C26_Answered ==
    \E n \in C26_LineEnds :
        \E a, b \in 0..n :
            /\ a + b <= n
            /\ \A k \in 1..a : stdin[k] \in {" ", "\n"}
            /\ \A k \in (n - b + 1)..n : stdin[k] \in {" ", "\n"}
            /\ C26_YesOrY(SubSeq(stdin, a + 1, n - b))

(***************************************************************************)
(* C26: drop-tables drops only after confirmation.  dropTables is called,  *)
(* and its batch of DROP statements sent, iff the answer read from         *)
(* standard input, trimmed and lower-cased, is "yes" or "y"; after any     *)
(* other answer, the empty one included, nothing is sent.  The "Dropped    *)
(* table" lines follow the order of the tables, and when a result fails    *)
(* the error names that table, the first one not reported, and no later    *)
(* table is reported.                                                      *)
(***************************************************************************)
C26_DropOnlyAfterConfirmation ==
    /\ "drop-tables" \in ran => (batch # <<>> <=> C26_Answered)
    /\ batch # <<>> =>
            /\ "drop-tables" \in ran
            /\ Len(batch) = Len(DropTableNames)
    /\ batch = <<>> => (printed = <<>> /\ dropErr = <<>> /\ pc # "drop")
    /\ Len(printed) <= Len(DropTableNames)
    /\ printed = SubSeq(DropTableNames, 1, Len(printed))
    /\ dropErr # <<>> =>
            /\ Len(printed) < Len(DropTableNames)
            /\ dropErr[2] = DropTableNames[Len(printed) + 1]
            /\ pc = "exit"
            /\ ~ENABLED DropNext

\* the answer was " Y" and a newline, and the third table failed
C26_Witness ==
    /\ stdin = <<" ", "Y", "\n">>
    /\ input = <<"y">>
    /\ printed = <<"timestamp", "album">>
    /\ dropErr = <<"dropping table failed", "artist">>
    /\ pc = "exit"

====
